---- MODULE Spec2Model ----
(***************************************************************************)
(* BGLS protocol layer (src/bgls/bgls.go): signing, single-signature       *)
(* verification, point aggregation, aggregate verification and point       *)
(* scaling.  Goroutines are workers that compute a value and then block on *)
(* an unbuffered channel until the orchestrating call receives from it.    *)
(*                                                                         *)
(* The curve package (github.com/Project-Arda/bgls/curves) is modelled     *)
(* algebraically: G1, G2 and GT are cyclic groups of the same order, an    *)
(* element is its discrete logarithm, and the pairing multiplies the two   *)
(* logarithms.                                                             *)
(***************************************************************************)
EXTENDS Integers, Sequences, FiniteSets, TLC

\* ----------------------------------------------------------------- bounds
Order == 3        \* order of the three groups
NumMsgs == 3      \* number of different messages
MaxKeys == 2      \* longest keys / msgs sequence given to the aggregate verifier
MaxAggSig == 2    \* longest keys / msgs sequence held by an AggSig
MaxPoints == 5    \* longest sequence given to AggregatePoints
MaxSigners == 3   \* most signers in a sign / aggregate / verify round trip
MaxScale == 2     \* longest points / factors sequence given to scalePoints

\* ------------------------------------------------------ the curve package
Scalars == 0 .. (Order - 1)

\* the nil interface value: an absent Point or PointT
Nil == [g |-> 0, v |-> 0]

G1 == [g : {1}, v : Scalars]
G2 == [g : {2}, v : Scalars]
GT == [g : {3}, v : Scalars]
Points == G1 \cup G2

\* curve.GetG2(): the generator of G2
GetG2 == [g |-> 2, v |-> 1 % Order]

\* Point.Mul(scalar)
Mul(p, s) == [g |-> p.g, v |-> (p.v * s) % Order]

\* Point.Add(other) and PointT.Add(other): ok only for two elements of the same
\* group, and the absent value otherwise
Add(p, q) == IF p.g = q.g THEN [g |-> p.g, v |-> (p.v + q.v) % Order] ELSE Nil

\* Point.Copy()
Copy(p) == [g |-> p.g, v |-> p.v]

\* PointT.Equals(other), called on a receiver that is not nil
Equals(p, q) == q # Nil /\ p.g = q.g /\ p.v = q.v

\* curve.Pair(pt, key): defined on G1 x G2, absent otherwise
Pair(pt, key) ==
    IF pt.g = 1 /\ key.g = 2 THEN [g |-> 3, v |-> (pt.v * key.v) % Order] ELSE Nil

\* messages are byte strings: the i-th message is i+1 written in binary
\* without its leading 1  (<<>>, <<0>>, <<1>>, <<0,0>>, ...)
RECURSIVE Bits(_)
Bits(n) == IF n <= 1 THEN <<>> ELSE Append(Bits(n \div 2), n % 2)
Msgs == {Bits(i + 1) : i \in 0 .. (NumMsgs - 1)}

RECURSIVE ByteSum(_)
ByteSum(m) == IF m = <<>> THEN 0 ELSE m[1] + 1 + ByteSum(Tail(m))

\* curve.HashToG1(msg): a fixed map from byte strings to G1
HashToG1(m) == [g |-> 1, v |-> (1 + Len(m) + ByteSum(m)) % Order]

\* a caller-supplied hash to G1 that is not the curve's
AltHash(m) == [g |-> 1, v |-> (2 + ByteSum(m)) % Order]

HashFns == {"HashToG1", "AltHash"}
ApplyHash(hash, m) == IF hash = "HashToG1" THEN HashToG1(m) ELSE AltHash(m)

\* *big.Int: a pointer that is nil or holds a number
NilInt == [isNil |-> TRUE, n |-> 0]
BigInt(n) == [isNil |-> FALSE, n |-> n]

\* ------------------------------------------------------------------ state
VARIABLES
    entry,            \* the public function the caller entered
    pc,               \* where the orchestrating call stands
    workers,          \* the goroutines dispatched, in dispatch order
    sk,               \* the secret keys a round trip signed with (<<>>: none)
    pubKey, msg, sig, hash,                  \* VerifySingleSignatureCustHash
    aggsig, keys, msgs, allowDuplicates,     \* verifyAggSig
    e1, e2, i,                               \* locals of the two verifiers
    points, aggPoint, nxtAggPoint, counter,  \* AggregatePoints
    pts, factors, newKeys,                   \* scalePoints
    ok,               \* the boolean a verifier returned
    aggRet,           \* the Point AggregatePoints returned
    scaleRet          \* the slice scalePoints returned: "pts", "newKeys", "nil"

singleVars == <<pubKey, msg, sig, hash>>
verifyVars == <<aggsig, keys, msgs, allowDuplicates>>
localVars == <<e1, e2, i>>
aggVars == <<points, aggPoint, nxtAggPoint, counter, aggRet>>
scaleVars == <<pts, factors, newKeys, scaleRet>>
vars == <<entry, pc, workers, sk, singleVars, verifyVars, localVars, aggVars,
          scaleVars, ok>>

Init ==
    /\ entry = "none"
    /\ pc = "idle"
    /\ workers = <<>>
    /\ sk = <<>>
    /\ pubKey = Nil /\ msg = <<>> /\ sig = Nil /\ hash = "HashToG1"
    /\ aggsig = Nil /\ keys = <<>> /\ msgs = <<>> /\ allowDuplicates = FALSE
    /\ e1 = Nil /\ e2 = Nil /\ i = 0
    /\ points = <<>> /\ aggPoint = <<>> /\ nxtAggPoint = <<>> /\ counter = 0
    /\ aggRet = Nil
    /\ pts = <<>> /\ factors = [isNil |-> TRUE, elems |-> <<>>] /\ newKeys = <<>>
    /\ scaleRet = "none"
    /\ ok = FALSE

\* -------------------------------------------------------------- goroutines
\* a goroutine: "run" until it has computed its value, "send" while it is
\* blocked on its channel send, "done" once the value has been received
Worker(kind, ch) ==
    [kind |-> kind, ch |-> ch, st |-> "run", val |-> Nil,
     pt |-> Nil, key |-> Nil, msg |-> <<>>,
     start |-> 0, points |-> <<>>, factor |-> NilInt, index |-> 0]

\* go concurrentPair(curve, pt, key, c)
GoPair(pt, key, ch) ==
    [Worker("concurrentPair", ch) EXCEPT !.pt = pt, !.key = key]

\* go concurrentMsgPair(curve, msg, key, c)
GoMsgPair(m, key, ch) ==
    [Worker("concurrentMsgPair", ch) EXCEPT !.msg = m, !.key = key]

\* go concurrentAggregatePoints(start, points, c)
GoAggregate(start, ps, ch) ==
    [Worker("concurrentAggregatePoints", ch) EXCEPT !.start = start, !.points = ps]

\* go concurrentScale(key, factor, index, c)
GoScale(key, factor, index, ch) ==
    [Worker("concurrentScale", ch) EXCEPT !.key = key, !.factor = factor,
                                          !.index = index]

\* the value concurrentPair sends
concurrentPair(pt, key) == Pair(pt, key)

\* mutant: the message hash is paired with the generator instead of the key
MutConcurrentMsgPair(m, key) == concurrentPair(HashToG1(m), GetG2)

\* the value concurrentMsgPair sends: the message is hashed with the curve's hash
concurrentMsgPair(m, key) == concurrentPair(HashToG1(m), key)

\* mutant: the first point of a pair is sent without adding the second
MutAggregateNoAdd(start, ps) == ps[start + 1]

\* mutant: a lone trailing point is added to itself instead of carried forward
MutAggregateCarry(start, ps) ==
    IF start + 1 >= Len(ps) THEN Add(ps[start + 1], ps[start + 1])
    ELSE Add(ps[start + 1], ps[start + 2])

\* the value concurrentAggregatePoints sends (start counts from 0)
concurrentAggregatePoints(start, ps) ==
    IF start + 1 >= Len(ps) THEN ps[start + 1]
    ELSE Add(ps[start + 1], ps[start + 2])

\* concurrentAggregatePoints calls Add on points[start]: a nil receiver panics
AggregatePanics(start, ps) == start + 1 < Len(ps) /\ ps[start + 1] = Nil

\* the indexedPoint concurrentScale sends
concurrentScale(key, factor, index) ==
    IF factor.isNil THEN [index |-> index, pt |-> Copy(key)]
    ELSE [index |-> index, pt |-> Mul(key, factor.n)]

WorkerValue(w) ==
    CASE w.kind = "concurrentPair" -> concurrentPair(w.pt, w.key)
      [] w.kind = "concurrentMsgPair" -> concurrentMsgPair(w.msg, w.key)
      [] w.kind = "concurrentAggregatePoints" ->
            concurrentAggregatePoints(w.start, w.points)
      [] OTHER -> concurrentScale(w.key, w.factor, w.index)

WorkerPanics(w) ==
    w.kind = "concurrentAggregatePoints" /\ AggregatePanics(w.start, w.points)

\* the workers blocked on a send on channel ch
Sending(ch) == {w \in DOMAIN workers : workers[w].st = "send" /\ workers[w].ch = ch}

\* the receive takes the value of worker w and lets it finish
Received(w) == [workers EXCEPT ![w].st = "done"]

\* the goroutines after a dispatch: those that have not finished, and the new
\* ones (a goroutine whose value was received has returned and is gone)
Dispatch(new) == SelectSeq(workers, LAMBDA w : w.st # "done") \o new

\* a goroutine runs up to its channel send; a panic ends the whole program
WorkerRun ==
    /\ pc \notin {"idle", "panic"}
    /\ \E w \in DOMAIN workers :
        /\ workers[w].st = "run"
        /\ IF WorkerPanics(workers[w])
           THEN /\ pc' = "panic"
                /\ UNCHANGED workers
           ELSE /\ workers' = [workers EXCEPT ![w].st = "send",
                                              ![w].val = WorkerValue(workers[w])]
                /\ UNCHANGED pc
    /\ UNCHANGED <<entry, sk, singleVars, verifyVars, localVars, aggVars,
                   scaleVars, ok>>

\* ------------------------------------------------- key management, signer
\* mutant: the generator is returned without the multiplication by the secret key
MutLoadPublicKey(secret) == GetG2

LoadPublicKey(secret) == Mul(GetG2, secret)

SignCustHash(secret, m, h) == Mul(ApplyHash(h, m), secret)

Sign(secret, m) == SignCustHash(secret, m, "HashToG1")

\* --------------------------------------------------------- single verifier
\* VerifySingleSignature(curve, pubKey, m, sig) on any key, message, signature
CallVerifySingleSignature ==
    /\ pc = "idle"
    /\ \E k \in Points, m \in Msgs, s \in Points :
        /\ pubKey' = k /\ msg' = m /\ sig' = s
    /\ hash' = "HashToG1"
    /\ entry' = "VerifySingleSignature"
    /\ pc' = "vs_dispatch"
    /\ UNCHANGED <<workers, sk, verifyVars, localVars, aggVars, scaleVars, ok>>

\* VerifySingleSignatureCustHash(curve, pubKey, msg, sig, hash) on any input
CallVerifySingleSignatureCustHash ==
    /\ pc = "idle"
    /\ \E k \in Points, m \in Msgs, s \in Points, h \in HashFns :
        /\ pubKey' = k /\ msg' = m /\ sig' = s /\ hash' = h
    /\ entry' = "VerifySingleSignatureCustHash"
    /\ pc' = "vs_dispatch"
    /\ UNCHANGED <<workers, sk, verifyVars, localVars, aggVars, scaleVars, ok>>

\* VerifySingleSignature(curve, LoadPublicKey(curve, x), m, Sign(curve, x, m))
CallSignThenVerify ==
    /\ pc = "idle"
    /\ \E x \in Scalars, m \in Msgs :
        /\ sk' = <<x>>
        /\ pubKey' = LoadPublicKey(x) /\ msg' = m /\ sig' = Sign(x, m)
    /\ hash' = "HashToG1"
    /\ entry' = "VerifySingleSignature"
    /\ pc' = "vs_dispatch"
    /\ UNCHANGED <<workers, verifyVars, localVars, aggVars, scaleVars, ok>>

\* VerifySingleSignatureCustHash(curve, LoadPublicKey(curve, x), m,
\*                               SignCustHash(x, m, h), h)
CallSignCustHashThenVerify ==
    /\ pc = "idle"
    /\ \E x \in Scalars, m \in Msgs, h \in HashFns :
        /\ sk' = <<x>>
        /\ pubKey' = LoadPublicKey(x) /\ msg' = m /\ sig' = SignCustHash(x, m, h)
        /\ hash' = h
    /\ entry' = "VerifySingleSignatureCustHash"
    /\ pc' = "vs_dispatch"
    /\ UNCHANGED <<workers, verifyVars, localVars, aggVars, scaleVars, ok>>

\* c := make(chan PointT); go concurrentPair(...); go concurrentMsgPair(...)
VerifySingleDispatch ==
    /\ pc = "vs_dispatch"
    /\ workers' = Dispatch(<<GoPair(sig, GetG2, "c"), GoMsgPair(msg, pubKey, "c")>>)
    /\ pc' = "vs_e1"
    /\ UNCHANGED <<entry, sk, singleVars, verifyVars, localVars, aggVars,
                   scaleVars, ok>>

\* e1 := <-c
VerifySingleRecvE1 ==
    /\ pc = "vs_e1"
    /\ \E w \in Sending("c") :
        /\ e1' = workers[w].val
        /\ workers' = Received(w)
    /\ pc' = "vs_e2"
    /\ UNCHANGED <<entry, sk, singleVars, verifyVars, e2, i, aggVars, scaleVars, ok>>

\* e2 := <-c
VerifySingleRecvE2 ==
    /\ pc = "vs_e2"
    /\ \E w \in Sending("c") :
        /\ e2' = workers[w].val
        /\ workers' = Received(w)
    /\ pc' = "vs_return"
    /\ UNCHANGED <<entry, sk, singleVars, verifyVars, e1, i, aggVars, scaleVars, ok>>

\* return e1.Equals(e2): a nil e1 panics
VerifySingleReturn ==
    /\ pc = "vs_return"
    /\ IF e1 = Nil
       THEN pc' = "panic" /\ UNCHANGED ok
       ELSE pc' = "done" /\ ok' = Equals(e1, e2)
    /\ UNCHANGED <<entry, workers, sk, singleVars, verifyVars, localVars, aggVars,
                   scaleVars>>

NextSingle ==
    \/ CallVerifySingleSignature
    \/ CallVerifySingleSignatureCustHash
    \/ CallSignThenVerify
    \/ CallSignCustHashThenVerify
    \/ VerifySingleDispatch
    \/ WorkerRun
    \/ VerifySingleRecvE1
    \/ VerifySingleRecvE2
    \/ VerifySingleReturn

SpecSingle == Init /\ [][NextSingle]_vars

\* ------------------------------------------------------ aggregate verifier
\* all sequences over S of length at most n
SeqsUpTo(S, n) == UNION {[1 .. k -> S] : k \in 0 .. n}

\* mutant: only a shorter keys sequence is rejected
MutLengthMismatch(ks, ms) == Len(ks) < Len(ms)

\* len(keys) != len(msgs)
LengthMismatch(ks, ms) == Len(ks) # Len(ms)

\* the loop of containsDuplicateMessage from index j (counted from 1) on, with
\* hashmap the set of strings seen so far; string(msgs[i]) keeps every byte
RECURSIVE DuplicateFrom(_, _, _)
DuplicateFrom(ms, j, hashmap) ==
    IF j > Len(ms) THEN FALSE
    ELSE IF ms[j] \in hashmap THEN TRUE
    ELSE DuplicateFrom(ms, j + 1, hashmap \cup {ms[j]})

\* mutant: the loop starts one entry late, so the first message is never recorded
MutContainsDuplicateMessage(ms) == DuplicateFrom(ms, 2, {})

containsDuplicateMessage(ms) == DuplicateFrom(ms, 1, {})

\* the early returns of verifyAggSig
Rejects(ks, ms, allowDup) ==
    \/ LengthMismatch(ks, ms)
    \/ (~allowDup /\ containsDuplicateMessage(ms))

\* mutant: the received value replaces the accumulator instead of being added
MutAccumulate(acc, e3) == e3

\* e2, _ = e2.Add(e3)
Accumulate(acc, e3) == Add(acc, e3)

\* mutant: the loop stops one result early
MutMoreResults(index, ms) == index + 1 < Len(ms)

\* the condition of the receive loop: i < len(msgs)
MoreResults(index, ms) == index < Len(ms)

\* mutant: the public entry points allow duplicate messages
MutAllowDuplicatesArg == TRUE

\* the allowDuplicates argument VerifyAggregateSignature passes to verifyAggSig
AllowDuplicatesArg == FALSE

\* the points a caller passes as signature and as keys: every point of the
\* right group, and one point of the other group
SigInputs == G1 \cup {GetG2}
KeyInputs == G2 \cup {[g |-> 1, v |-> 1 % Order]}

\* VerifyAggregateSignature(curve, aggsig, keys, msgs) on any input
CallVerifyAggregateSignature ==
    /\ pc = "idle"
    /\ \E a \in SigInputs, ks \in SeqsUpTo(KeyInputs, MaxKeys),
          ms \in SeqsUpTo(Msgs, MaxKeys) :
        /\ aggsig' = a /\ keys' = ks /\ msgs' = ms
    /\ allowDuplicates' = AllowDuplicatesArg
    /\ entry' = "VerifyAggregateSignature"
    /\ pc' = "va_check"
    /\ UNCHANGED <<workers, sk, singleVars, localVars, aggVars, scaleVars, ok>>

\* a.Verify(curve) on any AggSig a: VerifyAggregateSignature(curve, a.sig, a.keys, a.msgs)
CallAggSigVerify ==
    /\ pc = "idle"
    /\ \E a \in SigInputs, ks \in SeqsUpTo(KeyInputs, MaxAggSig),
          ms \in SeqsUpTo(Msgs, MaxAggSig) :
        /\ aggsig' = a /\ keys' = ks /\ msgs' = ms
    /\ allowDuplicates' = AllowDuplicatesArg
    /\ entry' = "AggSig.Verify"
    /\ pc' = "va_check"
    /\ UNCHANGED <<workers, sk, singleVars, localVars, aggVars, scaleVars, ok>>

\* the two checks, then the dispatch of the n + 1 pairing workers
VerifyAggCheckAndDispatch ==
    /\ pc = "va_check"
    /\ IF Rejects(keys, msgs, allowDuplicates)
       THEN /\ ok' = FALSE
            /\ pc' = "done"
            /\ UNCHANGED workers
       ELSE /\ workers' = Dispatch(<<GoPair(aggsig, GetG2, "c2")>> \o
                          [j \in 1 .. Len(msgs) |-> GoMsgPair(msgs[j], keys[j], "c")])
            /\ pc' = "va_e1"
            /\ UNCHANGED ok
    /\ UNCHANGED <<entry, sk, singleVars, verifyVars, localVars, aggVars, scaleVars>>

\* e1 := <-c2
VerifyAggRecvE1 ==
    /\ pc = "va_e1"
    /\ \E w \in Sending("c2") :
        /\ e1' = workers[w].val
        /\ workers' = Received(w)
    /\ pc' = "va_e2"
    /\ UNCHANGED <<entry, sk, singleVars, verifyVars, e2, i, aggVars, scaleVars, ok>>

\* e2 := <-c, and the loop starts at i = 1
VerifyAggRecvE2 ==
    /\ pc = "va_e2"
    /\ \E w \in Sending("c") :
        /\ e2' = workers[w].val
        /\ workers' = Received(w)
    /\ i' = 1
    /\ pc' = "va_loop"
    /\ UNCHANGED <<entry, sk, singleVars, verifyVars, e1, aggVars, scaleVars, ok>>

\* one pass of the loop: e3 := <-c; e2, _ = e2.Add(e3) (a nil e2 panics)
VerifyAggRecvE3 ==
    /\ pc = "va_loop"
    /\ MoreResults(i, msgs)
    /\ \E w \in Sending("c") :
        /\ workers' = Received(w)
        /\ IF e2 = Nil
           THEN pc' = "panic" /\ UNCHANGED <<e2, i>>
           ELSE /\ e2' = Accumulate(e2, workers[w].val)
                /\ i' = i + 1
                /\ UNCHANGED pc
    /\ UNCHANGED <<entry, sk, singleVars, verifyVars, e1, aggVars, scaleVars, ok>>

\* return e1.Equals(e2): a nil e1 panics
VerifyAggReturn ==
    /\ pc = "va_loop"
    /\ ~MoreResults(i, msgs)
    /\ IF e1 = Nil
       THEN pc' = "panic" /\ UNCHANGED ok
       ELSE pc' = "done" /\ ok' = Equals(e1, e2)
    /\ UNCHANGED <<entry, workers, sk, singleVars, verifyVars, localVars, aggVars,
                   scaleVars>>

NextVerify ==
    \/ CallVerifyAggregateSignature
    \/ CallAggSigVerify
    \/ VerifyAggCheckAndDispatch
    \/ WorkerRun
    \/ VerifyAggRecvE1
    \/ VerifyAggRecvE2
    \/ VerifyAggRecvE3
    \/ VerifyAggReturn

SpecVerify == Init /\ [][NextVerify]_vars

\* --------------------------------------------------------- point aggregator
\* make([]Point, n): n nil interface values
MakePoints(n) == [j \in 1 .. n |-> Nil]

\* (len / 2) + (len % 2)
HalfLen(ps) == (Len(ps) \div 2) + (Len(ps) % 2)

\* for i := 0; i < len(ps); i += 2 { go concurrentAggregatePoints(i, ps, c) }
DispatchPairs(ps) ==
    [k \in 1 .. ((Len(ps) + 1) \div 2) |-> GoAggregate(2 * (k - 1), ps, "c")]

\* mutant: the worker of a lone trailing point is not counted
MutRoundCount(ps) == Len(ps) \div 2

\* counter after the dispatch loop: one counter++ for each worker dispatched
RoundCount(ps) == Len(DispatchPairs(ps))

\* mutant: aggPoint is a reslice of the caller's points
MutAggPointAliasesInput == TRUE

\* whether aggPoint shares its array with points: make allocates a new one
AggPointAliasesInput == FALSE

\* mutant: every result is written to the first slot
MutRecvSlot(index, w) == 1

\* the slot a received result is written to: the loop index of the receive
RecvSlot(index, w) == index + 1

\* the points a caller aggregates: every point of G2 and one point of G1
AggInputs == G2 \cup {[g |-> 1, v |-> 1 % Order]}

\* AggregatePoints(points) on any sequence of points
CallAggregatePoints ==
    /\ pc = "idle"
    /\ \E ps \in SeqsUpTo(AggInputs, MaxPoints) : points' = ps
    /\ entry' = "AggregatePoints"
    /\ pc' = "ag_start"
    /\ UNCHANGED <<workers, sk, singleVars, verifyVars, localVars, aggPoint,
                   nxtAggPoint, counter, aggRet, scaleVars, ok>>

\* the n == 2 shortcut, or the first round's dispatch
AggregateStart ==
    /\ pc = "ag_start"
    /\ IF Len(points) = 2
       THEN /\ aggRet' = Add(points[1], points[2])
            /\ pc' = "done"
            /\ UNCHANGED <<workers, aggPoint, counter, i>>
       ELSE /\ aggPoint' = IF AggPointAliasesInput
                            THEN SubSeq(points, 1, HalfLen(points))
                            ELSE MakePoints(HalfLen(points))
            /\ workers' = Dispatch(DispatchPairs(points))
            /\ counter' = RoundCount(points)
            /\ i' = 0
            /\ pc' = IF RoundCount(points) = 0 THEN "ag_loop" ELSE "ag_recv"
            /\ UNCHANGED aggRet
    /\ UNCHANGED <<entry, sk, singleVars, verifyVars, e1, e2, points, nxtAggPoint,
                   scaleVars, ok>>

\* aggPoint[i] = <-c: the write goes to the array behind aggPoint
AggregateRecvFirst ==
    /\ pc = "ag_recv"
    /\ i < counter
    /\ \E w \in Sending("c") :
        /\ aggPoint' = [aggPoint EXCEPT ![RecvSlot(i, w)] = workers[w].val]
        /\ points' = IF AggPointAliasesInput
                     THEN [points EXCEPT ![RecvSlot(i, w)] = workers[w].val]
                     ELSE points
        /\ workers' = Received(w)
    /\ i' = i + 1
    /\ pc' = IF i + 1 < counter THEN "ag_recv" ELSE "ag_loop"
    /\ UNCHANGED <<entry, sk, singleVars, verifyVars, e1, e2, nxtAggPoint,
                   counter, aggRet, scaleVars, ok>>

\* the head of the for loop: allocate nxtAggPoint, return when one point is
\* left, dispatch the next round otherwise
AggregateLoopHead ==
    /\ pc = "ag_loop"
    /\ nxtAggPoint' = MakePoints(HalfLen(aggPoint))
    /\ IF Len(aggPoint) = 1
       THEN /\ aggRet' = aggPoint[1]
            /\ counter' = 0
            /\ pc' = "done"
            /\ UNCHANGED <<workers, i>>
       ELSE /\ workers' = Dispatch(DispatchPairs(aggPoint))
            /\ counter' = RoundCount(aggPoint)
            /\ i' = 0
            /\ pc' = IF RoundCount(aggPoint) = 0 THEN "ag_swap" ELSE "ag_recv_nxt"
            /\ UNCHANGED aggRet
    /\ UNCHANGED <<entry, sk, singleVars, verifyVars, e1, e2, points, aggPoint,
                   scaleVars, ok>>

\* nxtAggPoint[i] = <-c
AggregateRecvNext ==
    /\ pc = "ag_recv_nxt"
    /\ i < counter
    /\ \E w \in Sending("c") :
        /\ nxtAggPoint' = [nxtAggPoint EXCEPT ![RecvSlot(i, w)] = workers[w].val]
        /\ workers' = Received(w)
    /\ i' = i + 1
    /\ pc' = IF i + 1 < counter THEN "ag_recv_nxt" ELSE "ag_swap"
    /\ UNCHANGED <<entry, sk, singleVars, verifyVars, e1, e2, points, aggPoint,
                   counter, aggRet, scaleVars, ok>>

\* aggPoint = nxtAggPoint, and back to the head of the loop
AggregateSwap ==
    /\ pc = "ag_swap"
    /\ aggPoint' = nxtAggPoint
    /\ pc' = "ag_loop"
    /\ UNCHANGED <<entry, workers, sk, singleVars, verifyVars, localVars, points,
                   nxtAggPoint, counter, aggRet, scaleVars, ok>>

NextAggregate ==
    \/ CallAggregatePoints
    \/ AggregateStart
    \/ WorkerRun
    \/ AggregateRecvFirst
    \/ AggregateLoopHead
    \/ AggregateRecvNext
    \/ AggregateSwap

SpecAggregate == Init /\ [][NextAggregate]_vars

\* ------------------------------------------ sign, aggregate, then verify
\* sequences of n pairwise different messages
DistinctMsgs(n) ==
    {ms \in [1 .. n -> Msgs] : \A a, b \in 1 .. n : a # b => ms[a] # ms[b]}

\* n signers sign n different messages; the signatures go to AggregatePoints
CallSignThenAggregate ==
    /\ pc = "idle"
    /\ \E n \in 2 .. MaxSigners :
        \E xs \in [1 .. n -> Scalars], ms \in DistinctMsgs(n) :
            /\ sk' = xs
            /\ msgs' = ms
            /\ keys' = [j \in 1 .. n |-> LoadPublicKey(xs[j])]
            /\ points' = [j \in 1 .. n |-> Sign(xs[j], ms[j])]
    /\ entry' = "AggregatePoints"
    /\ pc' = "ag_start"
    /\ UNCHANGED <<workers, singleVars, aggsig, allowDuplicates, localVars, aggPoint,
                   nxtAggPoint, counter, aggRet, scaleVars, ok>>

\* the aggregate that AggregatePoints returned goes to VerifyAggregateSignature
\* with the signers' public keys and messages
CallVerifyAggregated ==
    /\ pc = "done"
    /\ entry = "AggregatePoints"
    /\ sk # <<>>
    /\ aggsig' = aggRet
    /\ allowDuplicates' = AllowDuplicatesArg
    /\ entry' = "VerifyAggregateSignature"
    /\ pc' = "va_check"
    /\ UNCHANGED <<workers, sk, singleVars, keys, msgs, localVars, aggVars,
                   scaleVars, ok>>

NextRoundTrip ==
    \/ CallSignThenAggregate
    \/ AggregateStart
    \/ WorkerRun
    \/ AggregateRecvFirst
    \/ AggregateLoopHead
    \/ AggregateRecvNext
    \/ AggregateSwap
    \/ CallVerifyAggregated
    \/ VerifyAggCheckAndDispatch
    \/ VerifyAggRecvE1
    \/ VerifyAggRecvE2
    \/ VerifyAggRecvE3
    \/ VerifyAggReturn

SpecRoundTrip == Init /\ [][NextRoundTrip]_vars

\* ------------------------------------------------------------ point scaler
\* a []*big.Int: the nil slice, or a slice of pointers each nil or a number
NilFactors == [isNil |-> TRUE, elems |-> <<>>]
Factors(fs) == [isNil |-> FALSE, elems |-> fs]
FactorInputs == {NilInt} \cup {BigInt(n) : n \in Scalars}

\* the points a caller scales: every point of G2 and one point of G1
ScaleInputs == G2 \cup {[g |-> 1, v |-> 1 % Order]}

\* mutant: the result is written at the loop index, in arrival order
MutScaleSlot(index, ip) == index + 1

\* newKeys[pt.index] = pt.pt: the slot is the index the worker tagged
ScaleSlot(index, ip) == ip.index + 1

\* mutant: only a points sequence longer than factors is rejected
MutScaleLengthMismatch(ps, fs) == Len(ps) > Len(fs)

\* len(pts) != len(factors)
ScaleLengthMismatch(ps, fs) == Len(ps) # Len(fs)

\* scalePoints(pts, factors) on any points and factors
CallScalePoints ==
    /\ pc = "idle"
    /\ \E ps \in SeqsUpTo(ScaleInputs, MaxScale),
          fs \in {NilFactors} \cup {Factors(f) : f \in SeqsUpTo(FactorInputs, MaxScale)} :
        /\ pts' = ps
        /\ factors' = fs
    /\ entry' = "scalePoints"
    /\ pc' = "sp_start"
    /\ UNCHANGED <<workers, sk, singleVars, verifyVars, localVars, aggVars, newKeys,
                   scaleRet, ok>>

\* the two early returns, or the dispatch of one worker per point
ScaleStart ==
    /\ pc = "sp_start"
    /\ IF factors.isNil
       THEN /\ scaleRet' = "pts"
            /\ pc' = "done"
            /\ UNCHANGED <<workers, newKeys, i>>
       ELSE IF ScaleLengthMismatch(pts, factors.elems)
       THEN /\ scaleRet' = "nil"
            /\ pc' = "done"
            /\ UNCHANGED <<workers, newKeys, i>>
       ELSE /\ newKeys' = MakePoints(Len(pts))
            /\ workers' = Dispatch([j \in 1 .. Len(pts) |->
                              GoScale(pts[j], factors.elems[j], j - 1, "c")])
            /\ i' = 0
            /\ pc' = "sp_recv"
            /\ UNCHANGED scaleRet
    /\ UNCHANGED <<entry, sk, singleVars, verifyVars, e1, e2, aggVars, pts, factors, ok>>

\* pt := <-c; newKeys[pt.index] = pt.pt
ScaleRecv ==
    /\ pc = "sp_recv"
    /\ i < Len(pts)
    /\ \E w \in Sending("c") :
        /\ newKeys' = [newKeys EXCEPT ![ScaleSlot(i, workers[w].val)] = workers[w].val.pt]
        /\ workers' = Received(w)
    /\ i' = i + 1
    /\ UNCHANGED <<entry, pc, sk, singleVars, verifyVars, e1, e2, aggVars, pts, factors,
                   scaleRet, ok>>

\* return newKeys
ScaleReturn ==
    /\ pc = "sp_recv"
    /\ i >= Len(pts)
    /\ scaleRet' = "newKeys"
    /\ pc' = "done"
    /\ UNCHANGED <<entry, workers, sk, singleVars, verifyVars, localVars, aggVars, pts,
                   factors, newKeys, ok>>

\* the sequence behind the slice scalePoints returned
ScaleResult ==
    IF scaleRet = "pts" THEN pts ELSE IF scaleRet = "newKeys" THEN newKeys ELSE <<>>

NextScale ==
    \/ CallScalePoints
    \/ ScaleStart
    \/ WorkerRun
    \/ ScaleRecv
    \/ ScaleReturn

SpecScale == Init /\ [][NextScale]_vars

\* ------------------------------------------------------- the whole program
Next ==
    \/ NextSingle
    \/ NextVerify
    \/ NextAggregate
    \/ NextRoundTrip
    \/ NextScale

Spec == Init /\ [][Next]_vars

\* ================================================================ properties
InVerifyAgg == entry \in {"VerifyAggregateSignature", "AggSig.Verify"}

\* two entries of ms at different indices hold the same bytes
HasIdenticalEntries(ms) ==
    \E a, b \in 1 .. Len(ms) : a # b /\ ms[a] = ms[b]

\* the combination, in index order, of pairing(HashToCurveG1(ms[j]), ks[j]) for
\* j = 1 .. n; absent when one of the pairings is
RECURSIVE CombinedPairings(_, _, _)
CombinedPairings(ks, ms, n) ==
    IF n = 1 THEN Pair(HashToG1(ms[1]), ks[1])
    ELSE Add(CombinedPairings(ks, ms, n - 1), Pair(HashToG1(ms[n]), ks[n]))

\* C1: whenever msgs holds two byte-for-byte identical entries, the aggregate
\* verifier dispatches nothing and returns false, whatever the signature and keys
C1_DuplicateMessagesRejected ==
    (InVerifyAgg /\ HasIdenticalEntries(msgs)) =>
        /\ pc \in {"va_check", "done"}
        /\ workers = <<>>
        /\ pc = "done" => ok = FALSE

\* C1 witness: a call with msgs = [m, m] and two keys returned false although
\* the pairing equality holds for its signature
C1_Witness ==
    /\ entry = "VerifyAggregateSignature"
    /\ pc = "done"
    /\ Len(keys) = 2 /\ Len(msgs) = 2
    /\ msgs[1] = msgs[2]
    /\ keys[1] # keys[2]
    /\ Pair(aggsig, GetG2) # Nil
    /\ Pair(aggsig, GetG2) = CombinedPairings(keys, msgs, 2)
    /\ ok = FALSE

\* C2: whenever len(keys) != len(msgs), VerifyAggregateSignature and
\* AggSig.Verify return false; they dispatch no worker, do not panic, and the
\* step that returns is enabled
C2_LengthMismatchRejected ==
    (InVerifyAgg /\ Len(keys) # Len(msgs)) =>
        /\ pc \in {"va_check", "done"}
        /\ workers = <<>>
        /\ pc = "va_check" => ENABLED VerifyAggCheckAndDispatch
        /\ pc = "done" => ok = FALSE

\* C2 witness: AggSig.Verify returned false on an AggSig with one message and no key
C2_Witness ==
    /\ entry = "AggSig.Verify"
    /\ pc = "done"
    /\ Len(keys) = 0 /\ Len(msgs) = 1
    /\ ok = FALSE

\* C3: for n >= 1 keys and as many pairwise different messages, the value the
\* aggregate verifier returns is true exactly when pairing(aggsig, G2 generator)
\* equals the combination of the n pairings pairing(HashToCurveG1(msgs[j]),
\* keys[j]), under every arrival order; on a signature in G1 and keys in G2 it
\* does not panic
C3_ReturnsPairingEquality ==
    (InVerifyAgg /\ Len(keys) = Len(msgs) /\ Len(msgs) >= 1
                 /\ ~HasIdenticalEntries(msgs)) =>
        /\ pc = "done" =>
              (ok <=> Pair(aggsig, GetG2) = CombinedPairings(keys, msgs, Len(msgs)))
        /\ (aggsig \in G1 /\ \A j \in 1 .. Len(keys) : keys[j] \in G2) => pc # "panic"

\* C3 witness: a call on two different messages returned true on a pairing
\* value that is not the identity
C3_Witness ==
    /\ entry = "VerifyAggregateSignature"
    /\ sk = <<>>
    /\ pc = "done"
    /\ Len(keys) = 2 /\ Len(msgs) = 2
    /\ msgs[1] # msgs[2]
    /\ Pair(HashToG1(msgs[1]), keys[1]) # Pair(HashToG1(msgs[2]), keys[2])
    /\ Pair(aggsig, GetG2).v # 0
    /\ ok = TRUE

\* C4: n >= 2 signers sign pairwise different messages, AggregatePoints sums the
\* signatures, and VerifyAggregateSignature on the sum, the public keys and the
\* messages returns true under every interleaving, without a panic
C4_AggregateRoundTrip ==
    (sk # <<>> /\ entry \in {"AggregatePoints", "VerifyAggregateSignature"}) =>
        /\ pc # "panic"
        /\ (entry = "VerifyAggregateSignature" /\ pc = "done") => ok = TRUE

\* C4 witness: the round trip of three signers with secret keys that are not 0
\* returned true
C4_Witness ==
    /\ entry = "VerifyAggregateSignature"
    /\ pc = "done"
    /\ Len(sk) = 3
    /\ \A j \in 1 .. 3 : sk[j] # 0
    /\ aggsig = aggRet /\ aggsig.v # 0
    /\ ok = TRUE

\* the workers that have not yet handed their value over on channel ch
Pending(ch) == {w \in DOMAIN workers : workers[w].ch = ch /\ workers[w].st # "done"}

\* C5: the aggregate verifier never waits on a channel on which no dispatched
\* worker will send, so that every call goes on to return a boolean
C5_NeverWaitsForNoWorker ==
    InVerifyAgg =>
        /\ pc = "va_e1" => Pending("c2") # {}
        /\ pc = "va_e2" => Pending("c") # {}
        /\ (pc = "va_loop" /\ i < Len(msgs)) => Pending("c") # {}

AllDone == \A w \in DOMAIN workers : workers[w].st = "done"

\* C6: for every secret key x and message m, VerifySingleSignature on
\* LoadPublicKey(x), m and Sign(x, m) returns true, without a panic
C6_SingleRoundTrip ==
    (entry = "VerifySingleSignature" /\ sk # <<>>) =>
        /\ pc # "panic"
        /\ pc = "done" => ok = TRUE

\* C6 witness: the round trip returned true for a secret key and a message
\* hash that are not 0
C6_Witness ==
    /\ entry = "VerifySingleSignature"
    /\ pc = "done"
    /\ Len(sk) = 1 /\ sk[1] # 0
    /\ pubKey = Mul(GetG2, sk[1])
    /\ sig.v # 0
    /\ ok = TRUE

\* C7: the value VerifySingleSignature returns is true exactly when
\* pairing(sig, G2 generator) equals pairing(HashToCurveG1(msg), pubKey); it
\* returns only once both pairing workers have handed over their value,
\* whichever of them was received first
C7_SingleVerifyIsPairingEquality ==
    (entry = "VerifySingleSignature" /\ pc = "done") =>
        /\ ok <=> Pair(sig, GetG2) = Pair(HashToG1(msg), pubKey)
        /\ Len(workers) = 2
        /\ AllDone

\* C7 witness: a call that no round trip produced returned true on a pairing
\* value that is not the identity
C7_Witness ==
    /\ entry = "VerifySingleSignature"
    /\ sk = <<>>
    /\ pc = "done"
    /\ Len(workers) = 2 /\ AllDone
    /\ e1.v # 0
    /\ ok = TRUE

\* C8: for every hash function h, secret key x and message m,
\* VerifySingleSignatureCustHash on LoadPublicKey(x), m, SignCustHash(x, m, h)
\* and h returns true
C8_CustHashRoundTrip ==
    (entry = "VerifySingleSignatureCustHash" /\ sk # <<>> /\ pc = "done") => ok = TRUE

\* the sum of the logarithms of ps[1 .. n]
RECURSIVE SumV(_, _)
SumV(ps, n) == IF n = 0 THEN 0 ELSE SumV(ps, n - 1) + ps[n].v

\* the group sum of a non-empty sequence of points, each counted once; absent
\* when the points are not all of one group
GroupSum(ps) ==
    IF \A j \in 1 .. Len(ps) : ps[j].g = ps[1].g
    THEN [g |-> ps[1].g, v |-> SumV(ps, Len(ps)) % Order]
    ELSE Nil

\* C9: on every non-empty sequence AggregatePoints returns the group sum of its
\* points, each counted once, whatever the order in which the workers of a round
\* are received; on points of one group it does not panic
C9_AggregateIsGroupSum ==
    (entry = "AggregatePoints" /\ Len(points) >= 1) =>
        /\ pc = "done" => aggRet = GroupSum(points)
        /\ GroupSum(points) # Nil => pc # "panic"

\* C9 witness: AggregatePoints returned the sum of five points of G2, none of
\* them the identity, and the sum is none of the five
C9_Witness ==
    /\ entry = "AggregatePoints"
    /\ sk = <<>>
    /\ pc = "done"
    /\ Len(points) = 5
    /\ \A j \in 1 .. 5 : points[j].g = 2 /\ points[j].v # 0 /\ points[j] # aggRet
    /\ aggRet.g = 2

\* C10: for points and factors of equal length scalePoints returns a sequence
\* of that length whose element j is points[j] multiplied by factors[j], or
\* points[j] itself when factors[j] is absent, under every completion order
C10_ScalePointsElementwise ==
    (entry = "scalePoints" /\ pc = "done" /\ Len(pts) = Len(factors.elems)) =>
        /\ scaleRet \in {"pts", "newKeys"}
        /\ Len(ScaleResult) = Len(pts)
        /\ \A j \in 1 .. Len(pts) :
              ScaleResult[j] =
                  IF factors.isNil \/ factors.elems[j].isNil THEN pts[j]
                  ELSE [g |-> pts[j].g, v |-> (pts[j].v * factors.elems[j].n) % Order]

\* C10 witness: two different points came back, the first scaled to another
\* point and the second, whose factor is absent, unchanged
C10_Witness ==
    /\ entry = "scalePoints"
    /\ pc = "done"
    /\ scaleRet = "newKeys"
    /\ Len(pts) = 2
    /\ pts[1] # pts[2]
    /\ ~factors.elems[1].isNil /\ factors.elems[2].isNil
    /\ newKeys[1] # pts[1] /\ newKeys[1] # pts[2]
    /\ newKeys[2] = pts[2]

\* C11: when factors is present and its length differs from that of the points,
\* scalePoints returns the nil slice: it dispatches no worker and allocates
\* and writes no output element
C11_ScaleLengthMismatchIsNil ==
    (entry = "scalePoints" /\ ~factors.isNil /\ Len(pts) # Len(factors.elems)) =>
        /\ pc \in {"sp_start", "done"}
        /\ workers = <<>>
        /\ newKeys = <<>>
        /\ pc = "done" => scaleRet = "nil"

\* C11 witness: scalePoints returned the nil slice for two points and one factor
C11_Witness ==
    /\ entry = "scalePoints"
    /\ pc = "done"
    /\ Len(pts) = 2
    /\ ~factors.isNil /\ Len(factors.elems) = 1
    /\ scaleRet = "nil"
    /\ ScaleResult = <<>>

\* C12: with nil factors scalePoints returns a sequence equal to pts that is
\* not the caller's pts slice itself
C12_NilFactorsReturnsCopy ==
    (entry = "scalePoints" /\ pc = "done" /\ factors.isNil) =>
        /\ ScaleResult = pts
        /\ scaleRet # "pts"

\* C13: every run of verifyAggSig entered through VerifyAggregateSignature or
\* AggSig.Verify has allowDuplicates = false, and no such run gets past the
\* checks with two identical messages
C13_PublicEntriesCheckDuplicates ==
    InVerifyAgg =>
        /\ allowDuplicates = FALSE
        /\ pc \notin {"va_check", "done"} => ~HasIdenticalEntries(msgs)

\* C13 witness: AggSig.Verify, on as many keys as messages, ran the duplicate
\* check and returned false on two identical messages
C13_Witness ==
    /\ entry = "AggSig.Verify"
    /\ pc = "done"
    /\ allowDuplicates = FALSE
    /\ Len(keys) = 2 /\ Len(msgs) = 2
    /\ msgs[1] = msgs[2]
    /\ workers = <<>>
    /\ ok = FALSE

InRound == entry = "AggregatePoints" /\ pc \in {"ag_recv", "ag_loop", "ag_recv_nxt", "ag_swap"}

\* the sequence the current round writes its results to
RoundOutput == IF pc \in {"ag_recv", "ag_loop"} THEN aggPoint ELSE nxtAggPoint

DoneWorkers == {w \in DOMAIN workers : workers[w].st = "done"}

\* C14 as stated: the result of the worker for the pair starting at index start
\* is in slot start / 2 of the round's output once it has been received
C14_ResultAtHalfStart ==
    InRound =>
        \A w \in DoneWorkers :
            RoundOutput[(workers[w].start \div 2) + 1] = workers[w].val

\* C14 amended: the results received so far fill the first slots of the round's
\* output in arrival order, each received result exactly once, and the other
\* slots are still unwritten
C14_ResultsInArrivalOrder ==
    InRound =>
        LET n == Cardinality(DoneWorkers) IN
        /\ n <= Len(RoundOutput)
        /\ \E f \in [1 .. n -> DoneWorkers] :
              /\ \A a, b \in 1 .. n : a # b => f[a] # f[b]
              /\ \A k \in 1 .. n : RoundOutput[k] = workers[f[k]].val
        /\ \A k \in (n + 1) .. Len(RoundOutput) : RoundOutput[k] = Nil

\* C14 witness: in the first round over five points the result of the third
\* worker, the carried point, was received first and sits in slot 0, and the
\* first worker's different result in slot 1
C14_Witness ==
    /\ entry = "AggregatePoints"
    /\ pc = "ag_recv"
    /\ Len(points) = 5
    /\ i = 2
    /\ workers[3].st = "done" /\ workers[1].st = "done" /\ workers[2].st # "done"
    /\ workers[3].start = 4
    /\ aggPoint[1] = points[5]
    /\ aggPoint[2] = workers[1].val
    /\ aggPoint[1] # aggPoint[2]

\* the aggregator under a scheduler that lets the caller and every started
\* goroutine take its next step whenever one is possible
FairSpecAggregate == SpecAggregate /\ WF_vars(NextAggregate)

\* C15: every call of AggregatePoints, whatever the number of points, comes to
\* an end: it returns, or the process stops on a nil dereference
C15_AggregateTerminates ==
    (entry = "AggregatePoints") ~> (pc \in {"done", "panic"})

\* the sequence the workers of the current round read their pairs from
RoundInput == IF pc = "ag_recv" THEN points ELSE aggPoint

\* C16: the rounds of AggregatePoints are barriers: while a round receives,
\* every live worker was dispatched by that round on that round's input, so a
\* received value is never a result of an earlier round, and when a round is
\* over (at the loop head, at the swap, at the return) no worker is left
C16_RoundsAreBarriers ==
    entry = "AggregatePoints" =>
        /\ pc \in {"ag_recv", "ag_recv_nxt"} =>
              /\ Len(workers) = counter
              /\ \A w \in DOMAIN workers :
                    /\ workers[w].points = RoundInput
                    /\ workers[w].start = 2 * (w - 1)
        /\ pc \in {"ag_loop", "ag_swap", "done"} => AllDone

\* C16 witness: the second round over five points is receiving, one of its two
\* results is in and the other worker still holds its value to send
C16_Witness ==
    /\ entry = "AggregatePoints"
    /\ pc = "ag_recv_nxt"
    /\ Len(points) = 5
    /\ Len(aggPoint) = 3
    /\ i = 1
    /\ Len(workers) = 2
    /\ workers[1].points = aggPoint
    /\ workers[2].st = "done"
    /\ workers[1].st = "send"

\* one call of any of the four orchestrating functions on arbitrary arguments
NextCalls ==
    \/ CallVerifySingleSignature
    \/ VerifySingleDispatch
    \/ VerifySingleRecvE1
    \/ VerifySingleRecvE2
    \/ VerifySingleReturn
    \/ CallVerifyAggregateSignature
    \/ VerifyAggCheckAndDispatch
    \/ VerifyAggRecvE1
    \/ VerifyAggRecvE2
    \/ VerifyAggRecvE3
    \/ VerifyAggReturn
    \/ CallAggregatePoints
    \/ AggregateStart
    \/ AggregateRecvFirst
    \/ AggregateLoopHead
    \/ AggregateRecvNext
    \/ AggregateSwap
    \/ CallScalePoints
    \/ ScaleStart
    \/ ScaleRecv
    \/ ScaleReturn
    \/ WorkerRun

SpecCalls == Init /\ [][NextCalls]_vars

Orchestrators ==
    {"VerifySingleSignature", "VerifyAggregateSignature", "AggregatePoints",
     "scalePoints"}

\* C17: when one of the four orchestrating calls has returned, every worker it
\* dispatched has handed over its result and finished, and a call that
\* rejects its arguments for a length mismatch or a duplicate message has
\* dispatched no worker at all
C17_ReturnLeavesNoWorker ==
    entry \in Orchestrators =>
        /\ pc = "done" => AllDone
        /\ (entry = "VerifyAggregateSignature" /\ Rejects(keys, msgs, allowDuplicates))
              => workers = <<>>
        /\ (entry = "scalePoints" /\ ~factors.isNil
              /\ ScaleLengthMismatch(pts, factors.elems)) => workers = <<>>

\* C17 witness: VerifyAggregateSignature has returned true after dispatching
\* three workers, and all three are finished
C17_Witness ==
    /\ entry = "VerifyAggregateSignature"
    /\ pc = "done"
    /\ ok
    /\ Len(msgs) = 2
    /\ Len(workers) = 3
    /\ AllDone

\* an argument of the aggregate verifier is in the wrong source group, so that
\* a pairing evaluation fails
PairingFails == aggsig \notin G1 \/ \E k \in DOMAIN keys : keys[k] \notin G2

\* C18: when a pairing or a combine of VerifyAggregateSignature fails, the
\* call does not crash and does not return true
C18_FailClosed ==
    (entry = "VerifyAggregateSignature" /\ PairingFails
        /\ ~Rejects(keys, msgs, allowDuplicates)) =>
            /\ pc # "panic"
            /\ pc = "done" => ~ok

\* a worker's pair holds the absent result of a failed addition
ReadsAbsent(w) ==
    \E k \in {w.start + 1, w.start + 2} : k <= Len(w.points) /\ w.points[k] = Nil

\* C19: AggregatePoints on a non-empty input does not crash, and no worker of
\* a later round is given the absent result of a failed addition
C19_AggregateNeverCrashes ==
    (entry = "AggregatePoints" /\ Len(points) >= 1) =>
        /\ pc # "panic"
        /\ \A w \in DOMAIN workers : ~ReadsAbsent(workers[w])

\* C20: from the call on, no step of AggregatePoints or of
\* VerifyAggregateSignature changes the caller's points, keys or msgs
C20_InputsReadOnly ==
    [][(pc # "idle" /\ entry \in {"AggregatePoints", "VerifyAggregateSignature"}) =>
          /\ points' = points
          /\ keys' = keys
          /\ msgs' = msgs]_vars

\* C20 witness: AggregatePoints has returned the sum of three points after two
\* rounds of writes, and its result differs from every input point
C20_Witness ==
    /\ entry = "AggregatePoints"
    /\ pc = "done"
    /\ Len(points) = 3
    /\ aggRet \in G2
    /\ aggPoint = <<aggRet>>
    /\ \A k \in DOMAIN points : points[k] \in G2 /\ points[k] # aggRet

====
